---- MODULE Spec2Model ----
(***************************************************************************)
(* Model of authed-dev/mcp-secret.                                         *)
(*                                                                         *)
(*   SpecGate   : AuthedMiddleware.dispatch of mcp1_server/server_new.py,  *)
(*                one process per inbound HTTP request, split at its       *)
(*                await points (client.post, call_next).  The file uses    *)
(*                three names it never binds; names_bound tells the file   *)
(*                as it stands (FALSE) from the file with them supplied.   *)
(*   SpecBridge : the proxy handlers of mcp2_middleware/middleware.py      *)
(*                (SSE bridge) and mcp2_middleware/middleware/middleware.py*)
(*                (stdio bridge, with its initialization thread).          *)
(*   SpecBridgeLive : SpecBridge with the bridge's own steps forced.       *)
(*   SpecStore  : OnePasswordClient of mcp1_server/op_client.py as the     *)
(*                tools of mcp1_server/server.py call it, one task per     *)
(*                tool invocation, split at its awaits of the SDK.         *)
(*                                                                         *)
(* Python strings the code inspects (startswith, replace) are sequences of *)
(* one-character strings; None is a distinguished one-element sequence.    *)
(***************************************************************************)
EXTENDS Integers, Sequences, FiniteSets, TLC

VARIABLES
    \* ---- AuthedMiddleware (server_new.py) ----
    reqs,          \* slot -> the request being dispatched, or NoReq
    gpc,           \* slot -> position of dispatch: idle, verifying, handler,
                   \*         done
    proof,         \* slot -> the proof create_proof returned for it, or NoProof
    proofs_built,  \* number of create_proof calls so far (the jti of the next)
    verify,        \* slot -> the POST sent to /tokens/verify, or NoCall
    answer,        \* slot -> what came back from that POST, or NoAnswer
    fwd,           \* slot -> the request handed to call_next, or NoReq
    handled,       \* slot -> the response call_next produced, or NoResp
    resp,          \* slot -> the response dispatch returned, or NoResp
    names_bound,   \* whether DPoPHandler, httpx and authed_auth resolve
    \* ---- stdio bridge (middleware/middleware.py), module globals ----
    op_client,
    op_session,
    is_initialized,
    init_error,
    ipc,           \* position of the thread running init_op_client_sync
    mpc,           \* position of the __main__ block
    connects,      \* number of connect_and_execute calls started
    opened,        \* number of sessions connect_and_execute handed over
    closed,        \* whether close() was called on the session
    join_ipc,      \* where the thread was when join returned, or "pending"
    \* ---- SSE bridge (mcp2_middleware/middleware.py) ----
    mcp_session,   \* module global
    ssepc,         \* position of main(): start, serving, exited
    \* ---- handler invocations of either bridge ----
    inv,           \* call -> the invocation the framework made, or NoInv
    cpc,           \* call -> position of the handler: idle, awaiting, done
    upstream,      \* call -> the session operations the handler issued
    faults,        \* call -> the exceptions those operations raised
    outcome,       \* call -> how the handler ended (return or raise)
    reported,      \* call -> number of times the handler ended
    seen,          \* call -> the globals as the handler found them
    results,       \* call -> what the operations it awaited returned
    \* ---- OnePasswordClient (op_client.py) and the tools of server.py ----
    op_token,      \* self.op_token
    client,        \* self.client
    authenticates, \* number of Client.authenticate calls started
    task,          \* task -> the method a tool called, or NoTask
    tpc,           \* task -> position of the method
    sdk,           \* task -> the SDK operations that ended, in order
    mout,          \* task -> how the method ended
    tout,          \* task -> how the tool ended
    \* ---- main of server.py and of server_new.py ----
    entry,         \* the module run as __main__: "server" or "server_new"
    srvpc,         \* position of main
    server,        \* the local `server` of main, None until it is created
    connected,     \* how main's op_client.connect() ended, or NoOutcome
    started        \* whether the server has begun to accept requests

gateVars ==
    <<reqs, gpc, proof, proofs_built, verify, answer, fwd, handled, resp,
      names_bound>>

stdioVars ==
    <<op_client, op_session, is_initialized, init_error, ipc, mpc, connects,
      opened, closed, join_ipc>>

sseVars == <<mcp_session, ssepc>>

callVars == <<inv, cpc, upstream, faults, outcome, reported, seen, results>>

bridgeVars == <<stdioVars, sseVars, callVars>>

storeVars == <<op_token, client, authenticates, task, tpc, sdk, mout, tout>>

mainVars == <<entry, srvpc, server, connected, started>>

vars == <<gateVars, bridgeVars, storeVars, mainVars>>

(***************************************************************************)
(* Bounds                                                                  *)
(***************************************************************************)
\* Number of requests the gate serves (they may overlap).
MaxReq == 2

Slots == 1..MaxReq

\* Number of handler invocations the bridges serve (they may overlap).
MaxCalls == 2

Calls == 1..MaxCalls

\* Number of tool invocations the secret-store server serves (they may
\* overlap).
MaxTasks == 2

Tasks == 1..MaxTasks

(***************************************************************************)
(* Python values                                                           *)
(***************************************************************************)
None == <<"<None>">>

\* bool(v) of a str-or-None value: None and "" are falsy.
Truthy(v) == v # None /\ v # <<>>

\* str.startswith
StartsWith(s, prefix) ==
    /\ Len(s) >= Len(prefix)
    /\ SubSeq(s, 1, Len(prefix)) = prefix

\* str.replace(old, new) for non-empty old: every non-overlapping occurrence,
\* scanning left to right.
RECURSIVE Replace(_, _, _)
Replace(s, old, new) ==
    IF Len(s) < Len(old) THEN s
    ELSE IF SubSeq(s, 1, Len(old)) = old
         THEN new \o Replace(SubSeq(s, Len(old) + 1, Len(s)), old, new)
         ELSE <<Head(s)>> \o Replace(Tail(s), old, new)

\* The literal "Bearer " of lines 52, 60 and 83.
BearerPrefix == <<"B", "e", "a", "r", "e", "r", " ">>

(***************************************************************************)
(* Inputs                                                                  *)
(***************************************************************************)
\* Authorization header values: absent, "", "Basic abc", "Bearer abc123",
\* "Bearer Bearer x".
AuthValues ==
    { None,
      <<>>,
      <<"B", "a", "s", "i", "c", " ", "a", "b", "c">>,
      BearerPrefix \o <<"a", "b", "c", "1", "2", "3">>,
      BearerPrefix \o BearerPrefix \o <<"x">> }

\* dpop header values: absent, "", or the caller's own proof, which the
\* caller bound to its own request (direct.py, lines 41-45).  A proof is
\* <<htm, htu, jti>>.
CallerProof == <<"GET", "/sse", 0>>

DpopValues == { None, <<>>, CallerProof }

Methods == { "GET", "POST" }

\* The URL the caller asked for.
RequestUrl == "/sse"

Requests ==
    [ method : Methods, url : {RequestUrl},
      headers : [ authorization : AuthValues, dpop : DpopValues ] ]

\* What the authority may answer to POST /tokens/verify.
AuthorityAnswers ==
    { [status |-> 200, text |-> "valid"],
      [status |-> 204, text |-> ""],
      [status |-> 403, text |-> "forbidden"],
      [status |-> 500, text |-> "registry error"] }

\* DPoPHandler (line 74), httpx and authed_auth (line 89) are free names of
\* server_new.py: no import or assignment of the file binds them.  With the
\* file as it stands (names_bound = FALSE) line 74 raises this NameError for
\* every request that passes the header checks; names_bound = TRUE is the
\* file with the three names supplied.
NameError == "name 'DPoPHandler' is not defined"

\* Faults of create_proof (lines 74-79) when the names resolve.
BuildFaults == { "Could not deserialize key data" }

\* How lines 73-86 may end: "ok", or str(e) of the exception raised.
BuildOutcomes ==
    IF names_bound THEN {"ok"} \cup BuildFaults ELSE {NameError}

\* Faults of the POST itself (lines 89-94): network failure, timeout.
PostFaults == { "connection refused" }

\* What the downstream handler may return.
HandlerResponses ==
    { [origin |-> "handler", status |-> 200, detail |-> <<"event stream">>],
      [origin |-> "handler", status |-> 404, detail |-> <<"Not Found">>] }

NoReq == [none |-> "request"]
NoProof == <<>>
NoCall == [none |-> "call"]
NoAnswer == [none |-> "answer"]
NoResp == [none |-> "response"]

(***************************************************************************)
(* AuthedMiddleware.dispatch                                               *)
(***************************************************************************)
\* starlette's JSONResponse(status_code=..., content={"detail": ...}); the
\* detail is the sequence of the pieces the literal or f-string is made of.
JSONResponse(status_code, detail) ==
    [origin |-> "gate", status |-> status_code, detail |-> detail]

\* request.headers.get(name)
HeadersGet(request, name) == request.headers[name]

\* Line 60.
ExtractToken(auth_header) == Replace(auth_header, BearerPrefix, <<>>)

\* CheckCredentials without the dpop check of lines 63-69.
CheckCredentialsNoDpop(request) ==
    LET auth_header == HeadersGet(request, "authorization")
    IN  IF ~Truthy(auth_header)
        THEN JSONResponse(401, <<"Authentication required">>)
        ELSE IF ~StartsWith(auth_header, BearerPrefix)
        THEN JSONResponse(401, <<"Authentication failed - no Bearer token">>)
        ELSE NoResp

\* CheckCredentials answering a missing proof with 400 Bad Request.
CheckCredentials400(request) ==
    LET auth_header == HeadersGet(request, "authorization")
        dpop_header == HeadersGet(request, "dpop")
    IN  IF ~Truthy(auth_header)
        THEN JSONResponse(401, <<"Authentication required">>)
        ELSE IF ~StartsWith(auth_header, BearerPrefix)
        THEN JSONResponse(401, <<"Authentication failed - no Bearer token">>)
        ELSE IF ~Truthy(dpop_header)
        THEN JSONResponse(400,
                 <<"Authentication failed - missing DPoP proof header">>)
        ELSE NoResp

\* Lines 43-69: the response that ends dispatch before any verification, or
\* NoResp when both credentials are present.
CheckCredentials(request) ==
    LET auth_header == HeadersGet(request, "authorization")
        dpop_header == HeadersGet(request, "dpop")
    IN  IF ~Truthy(auth_header)
        THEN JSONResponse(401, <<"Authentication required">>)
        ELSE IF ~StartsWith(auth_header, BearerPrefix)
        THEN JSONResponse(401, <<"Authentication failed - no Bearer token">>)
        ELSE IF ~Truthy(dpop_header)
        THEN JSONResponse(401,
                 <<"Authentication failed - missing DPoP proof header">>)
        ELSE NoResp

\* Line 73: f"{authed.registry_url}/tokens/verify".
verify_url == "registry_url/tokens/verify"

\* Lines 74-79: DPoPHandler().create_proof("POST", verify_url, key); jti is
\* the serial number of the call.
create_proof(htm, htu, jti) == <<htm, htu, jti>>

\* Lines 82-94: the POST to /tokens/verify.  authed_auth, whose registry_url
\* is the base of the POST, is taken to be the auth handle of authed: the
\* file binds neither it nor httpx.
VerifyRequest(request, token, verification_proof) ==
    [ method |-> "POST",
      url |-> "registry_url/tokens/verify",
      headers |-> [ authorization |-> BearerPrefix \o token,
                    dpop |-> verification_proof,
                    original_method |-> request.method ],
      json |-> [ token |-> token ] ]

\* Accepting with the test of line 96 written against 401 only.
AcceptingUnless401(status_code) == status_code # 401

\* Accepting with the test of line 96 widened to the 2xx range.
Accepting2xx(status_code) == status_code \in 200..299

\* Line 96: the status dispatch lets through.
Accepting(status_code) == status_code = 200

\* ForwardedRequest with the credentials removed before the hand-over.
ForwardedRequestStripped(request) ==
    [request EXCEPT !.headers = [authorization |-> None, dpop |-> None]]

\* Line 111: the request call_next receives.
ForwardedRequest(request) == request

\* Response dispatch returns when the try block raises (lines 103-108).
FaultResponse(message) ==
    JSONResponse(401, <<"Authentication failed: ", message>>)

\* Dispatch with a cache of accepted tokens: a request whose token an earlier
\* request had accepted goes to the handler without a verification of its own.
DispatchCached(r, request, build) ==
    /\ gpc[r] = "idle"
    /\ \A q \in 1..(r - 1) : gpc[q] # "idle"
    /\ build \in BuildOutcomes
    /\ reqs' = [reqs EXCEPT ![r] = request]
    /\ LET denied == CheckCredentials(request)
           token == ExtractToken(HeadersGet(request, "authorization"))
           verification_proof ==
               create_proof("POST", verify_url, proofs_built + 1)
           cached == \E q \in Slots :
                         /\ fwd[q] # NoReq
                         /\ verify[q] # NoCall
                         /\ verify[q].json.token = token
       IN  IF denied # NoResp
           THEN /\ resp' = [resp EXCEPT ![r] = denied]
                /\ gpc' = [gpc EXCEPT ![r] = "done"]
                /\ UNCHANGED <<proof, proofs_built, verify, fwd>>
           ELSE IF cached
           THEN /\ fwd' = [fwd EXCEPT ![r] = ForwardedRequest(request)]
                /\ gpc' = [gpc EXCEPT ![r] = "handler"]
                /\ UNCHANGED <<proof, proofs_built, verify, resp>>
           ELSE IF build # "ok"
           THEN /\ resp' = [resp EXCEPT ![r] = FaultResponse(build)]
                /\ gpc' = [gpc EXCEPT ![r] = "done"]
                /\ UNCHANGED <<proof, proofs_built, verify, fwd>>
           ELSE /\ proof' = [proof EXCEPT ![r] = verification_proof]
                /\ proofs_built' = proofs_built + 1
                /\ verify' = [verify EXCEPT ![r] =
                       VerifyRequest(request, token, verification_proof)]
                /\ gpc' = [gpc EXCEPT ![r] = "verifying"]
                /\ UNCHANGED <<resp, fwd>>
    /\ UNCHANGED <<answer, handled, names_bound>>
    /\ UNCHANGED <<bridgeVars, storeVars, mainVars>>

\* Lines 40-94, up to the await of client.post.  build is how lines 73-86
\* end for this request.
Dispatch(r, request, build) ==
    /\ gpc[r] = "idle"
    /\ \A q \in 1..(r - 1) : gpc[q] # "idle"
    /\ build \in BuildOutcomes
    /\ reqs' = [reqs EXCEPT ![r] = request]
    /\ LET denied == CheckCredentials(request)
           token == ExtractToken(HeadersGet(request, "authorization"))
           verification_proof ==
               create_proof("POST", verify_url, proofs_built + 1)
       IN  IF denied # NoResp
           THEN /\ resp' = [resp EXCEPT ![r] = denied]
                /\ gpc' = [gpc EXCEPT ![r] = "done"]
                /\ UNCHANGED <<proof, proofs_built, verify>>
           ELSE IF build # "ok"
           THEN /\ resp' = [resp EXCEPT ![r] = FaultResponse(build)]
                /\ gpc' = [gpc EXCEPT ![r] = "done"]
                /\ UNCHANGED <<proof, proofs_built, verify>>
           ELSE /\ proof' = [proof EXCEPT ![r] = verification_proof]
                /\ proofs_built' = proofs_built + 1
                /\ verify' = [verify EXCEPT ![r] =
                       VerifyRequest(request, token, verification_proof)]
                /\ gpc' = [gpc EXCEPT ![r] = "verifying"]
                /\ UNCHANGED resp
    /\ UNCHANGED <<answer, fwd, handled, names_bound>>
    /\ UNCHANGED <<bridgeVars, storeVars, mainVars>>

\* Lines 90-102 and 110-111: the authority answered the POST.
VerifyResponds(r, response) ==
    /\ gpc[r] = "verifying"
    /\ answer' = [answer EXCEPT ![r] = response]
    /\ IF ~Accepting(response.status)
       THEN /\ resp' = [resp EXCEPT ![r] =
                   JSONResponse(401,
                       <<"Authentication failed: ", response.text>>)]
            /\ gpc' = [gpc EXCEPT ![r] = "done"]
            /\ UNCHANGED fwd
       ELSE /\ fwd' = [fwd EXCEPT ![r] = ForwardedRequest(reqs[r])]
            /\ gpc' = [gpc EXCEPT ![r] = "handler"]
            /\ UNCHANGED resp
    /\ UNCHANGED <<reqs, proof, proofs_built, verify, handled,
                   names_bound>>
    /\ UNCHANGED <<bridgeVars, storeVars, mainVars>>

\* VerifyFaults failing open: the except clause logs and falls through to
\* line 111.
VerifyFaultsOpen(r, message) ==
    /\ gpc[r] = "verifying"
    /\ answer' = [answer EXCEPT ![r] = [fault |-> message]]
    /\ fwd' = [fwd EXCEPT ![r] = ForwardedRequest(reqs[r])]
    /\ gpc' = [gpc EXCEPT ![r] = "handler"]
    /\ UNCHANGED <<reqs, proof, proofs_built, verify, resp, handled,
                   names_bound>>
    /\ UNCHANGED <<bridgeVars, storeVars, mainVars>>

\* Lines 89-94 raising: the POST failed.
VerifyFaults(r, message) ==
    /\ gpc[r] = "verifying"
    /\ answer' = [answer EXCEPT ![r] = [fault |-> message]]
    /\ resp' = [resp EXCEPT ![r] = FaultResponse(message)]
    /\ gpc' = [gpc EXCEPT ![r] = "done"]
    /\ UNCHANGED <<reqs, proof, proofs_built, verify, fwd, handled,
                   names_bound>>
    /\ UNCHANGED <<bridgeVars, storeVars, mainVars>>

\* Line 111: call_next returned; dispatch returns its response.
HandlerReturns(r, response) ==
    /\ gpc[r] = "handler"
    /\ handled' = [handled EXCEPT ![r] = response]
    /\ resp' = [resp EXCEPT ![r] = response]
    /\ gpc' = [gpc EXCEPT ![r] = "done"]
    /\ UNCHANGED <<reqs, proof, proofs_built, verify, answer, fwd,
                   names_bound>>
    /\ UNCHANGED <<bridgeVars, storeVars, mainVars>>

GateNext ==
    \/ \E r \in Slots, request \in Requests,
          build \in {"ok", NameError} \cup BuildFaults :
           Dispatch(r, request, build)
    \/ \E r \in Slots, response \in AuthorityAnswers :
           VerifyResponds(r, response)
    \/ \E r \in Slots, message \in PostFaults : VerifyFaults(r, message)
    \/ \E r \in Slots, response \in HandlerResponses :
           HandlerReturns(r, response)

(***************************************************************************)
(* The bridges: values                                                     *)
(***************************************************************************)
\* The ClientSession connect_and_execute hands to its operation, and the
\* AuthedMCPClient of lines 53-58.
Session == <<"ClientSession">>

McpClient == <<"AuthedMCPClient">>

\* {} : the dict with no key.
EmptyDict == [k \in {} |-> None]

VaultIds == { "v1" }

ItemIds == { "i1" }

FieldNames == { None, <<"password">> }

\* The tools both bridges register, and the resources of the SSE bridge.
ToolNames ==
    { "onepassword_list_vaults", "onepassword_list_items",
      "onepassword_get_secret" }

ResourceNames == { "list_vaults", "list_items", "get_secret" }

\* The parameters the framework passes to each handler.
ToolParams(name) ==
    CASE name = "onepassword_list_vaults" -> { EmptyDict }
      [] name = "onepassword_list_items" -> [ vault_id : VaultIds ]
      [] name = "onepassword_get_secret" ->
             [ vault_id : VaultIds, item_id : ItemIds, field_name : FieldNames ]

ResourceParams(name) ==
    CASE name = "list_vaults" -> { EmptyDict }
      [] name = "list_items" -> [ vault_id : VaultIds ]
      [] name = "get_secret" -> [ vault_id : VaultIds, item_id : ItemIds ]

\* What the upstream session may return to an operation: a payload, or a
\* result that reports an error of the upstream tool.
UpstreamPayloads ==
    { [isError |-> FALSE, content |-> "payload"],
      [isError |-> TRUE, content |-> "Unknown tool"] }

\* str(e) of the exceptions an upstream operation may raise.
UpstreamFaults == { "Connection closed", "Timed out" }

\* str(e) of the exceptions init_op_client_sync may meet.
SetupFaults == { "No module named 'authed_mcp'" }

ConnectFaults == { "All connection attempts failed" }

ListToolsFaults == { "Connection closed" }

NoInv == [none |-> "invocation"]
NoOutcome == [none |-> "outcome"]

\* A handler returning a value / raising an exception with a message.
Return(value) == [how |-> "return", value |-> value]

Raise(message) == [how |-> "raise", value |-> [exception |-> message]]

\* str(e) of the AttributeError of None.<attr>.
NoneTypeError(attr) == <<"'NoneType' object has no attribute '", attr, "'">>

(***************************************************************************)
(* The proxy handlers                                                      *)
(***************************************************************************)
\* ToolCall asking for the whole item whatever field the caller named.
ToolCallNoField(name, params) ==
    CASE name = "onepassword_list_vaults" ->
             [op |-> "call_tool", name |-> "onepassword_list_vaults",
              arguments |-> EmptyDict]
      [] name = "onepassword_list_items" ->
             [op |-> "call_tool", name |-> "onepassword_list_items",
              arguments |-> [vault_id |-> params.vault_id]]
      [] name = "onepassword_get_secret" ->
             [op |-> "call_tool", name |-> "onepassword_get_secret",
              arguments |-> [vault_id |-> params.vault_id,
                             item_id |-> params.item_id,
                             field_name |-> None]]

\* The op_session.call_tool / mcp_session.call_tool each tool handler issues
\* (stdio: lines 123, 136-138, 151-155; SSE: lines 191-195, 212, 234-236).
ToolCall(name, params) ==
    CASE name = "onepassword_list_vaults" ->
             [op |-> "call_tool", name |-> "onepassword_list_vaults",
              arguments |-> EmptyDict]
      [] name = "onepassword_list_items" ->
             [op |-> "call_tool", name |-> "onepassword_list_items",
              arguments |-> [vault_id |-> params.vault_id]]
      [] name = "onepassword_get_secret" ->
             [op |-> "call_tool", name |-> "onepassword_get_secret",
              arguments |-> [vault_id |-> params.vault_id,
                             item_id |-> params.item_id,
                             field_name |-> params.field_name]]

\* The session operation each resource handler of the SSE bridge issues
\* (lines 131, 148, 166).
ResourceCall(name, params) ==
    CASE name = "list_vaults" -> [op |-> "list_resources"]
      [] name = "list_items" ->
             [op |-> "read_resource",
              uri |-> <<"op://vaults/", params.vault_id, "/items">>]
      [] name = "get_secret" ->
             [op |-> "read_resource",
              uri |-> <<"op://vaults/", params.vault_id, "/items/",
                        params.item_id>>]

\* The prefix of the exception each resource handler raises (lines 137, 154,
\* 172).
ResourcePrefix(name) ==
    CASE name = "list_vaults" -> "Error listing vaults: "
      [] name = "list_items" -> "Error listing items: "
      [] name = "get_secret" -> "Error getting secret: "

\* The except clause of a tool handler: return {"error": str(e)}.
ToolExcept(message) == Return([error |-> message])

\* The except clause of a resource handler: raise Exception(f"...: {str(e)}").
ResourceExcept(name, message) == Raise(<<ResourcePrefix(name)>> \o message)

\* How a handler ends when the operation it awaits raises.
HandlerExcept(invocation, message) ==
    IF invocation.kind = "tool"
    THEN ToolExcept(message)
    ELSE ResourceExcept(invocation.name, message)

NoSeen == [none |-> "seen"]

\* The globals a stdio handler finds, with the progress of the connection
\* at that moment.
Globals ==
    [session |-> op_session, is_initialized |-> is_initialized, ipc |-> ipc,
     connects |-> connects, opened |-> opened]

\* The process that runs the handlers of a bridge is serving.
Serving(bridge) == IF bridge = "stdio" THEN mpc = "serving"
                   ELSE ssepc = "serving"

\* stdio bridge, lines 94-114: what test_tool returns in the current state
\* (it awaits nothing).  f"{init_error}" of None is "None".
test_tool ==
    IF ~is_initialized
    THEN [status |-> <<"Server is initializing...">>,
          connection |-> <<"Not yet connected to 1Password server">>]
    ELSE IF Truthy(op_session)
         THEN [status |-> <<"Server is working!">>,
               connection |-> <<"Connected to 1Password server">>]
         ELSE [status |-> <<"Server is working!">>,
               connection |-> <<"Not connected to 1Password server: ">> \o
                              (IF init_error = None THEN <<"None">>
                               ELSE init_error)]

\* Handler i ends with outcome o.
Ends(i, o) ==
    /\ outcome' = [outcome EXCEPT ![i] = o]
    /\ reported' = [reported EXCEPT ![i] = @ + 1]
    /\ cpc' = [cpc EXCEPT ![i] = "done"]

\* Handler i issues session operation c and awaits it.
Issues(i, c) ==
    /\ upstream' = [upstream EXCEPT ![i] = Append(@, c)]
    /\ cpc' = [cpc EXCEPT ![i] = "awaiting"]
    /\ UNCHANGED <<outcome, reported>>

\* The framework may invoke handler i now.
Free(i) ==
    /\ cpc[i] = "idle"
    /\ \A q \in 1..(i - 1) : cpc[q] # "idle"

\* StdioTool without the test of op_session.
StdioToolNoGuard(i, name, params) ==
    /\ mpc = "serving"
    /\ Free(i)
    /\ inv' = [inv EXCEPT ![i] =
           [bridge |-> "stdio", kind |-> "tool", name |-> name,
            params |-> params]]
    /\ seen' = [seen EXCEPT ![i] = Globals]
    /\ Issues(i, ToolCall(name, params))
    /\ UNCHANGED <<faults, results, stdioVars, sseVars, gateVars, storeVars,
                   mainVars>>

\* stdio bridge, lines 116-159: onepassword_list_vaults, onepassword_list_items
\* and onepassword_get_secret, up to the await of call_tool.
StdioTool(i, name, params) ==
    /\ mpc = "serving"
    /\ Free(i)
    /\ inv' = [inv EXCEPT ![i] =
           [bridge |-> "stdio", kind |-> "tool", name |-> name,
            params |-> params]]
    /\ seen' = [seen EXCEPT ![i] = Globals]
    /\ IF ~Truthy(op_session)
       THEN /\ Ends(i, Return([error |->
                      <<"Not connected to 1Password server">>]))
            /\ UNCHANGED upstream
       ELSE Issues(i, ToolCall(name, params))
    /\ UNCHANGED <<faults, results, stdioVars, sseVars, gateVars, storeVars,
                   mainVars>>

\* SSE bridge, lines 175-242: the three tools, up to the await of call_tool.
SseTool(i, name, params) ==
    /\ ssepc = "serving"
    /\ Free(i)
    /\ inv' = [inv EXCEPT ![i] =
           [bridge |-> "sse", kind |-> "tool", name |-> name,
            params |-> params]]
    /\ IF mcp_session = None
       THEN /\ Ends(i, ToolExcept(NoneTypeError("call_tool")))
            /\ UNCHANGED upstream
       ELSE Issues(i, ToolCall(name, params))
    /\ UNCHANGED <<faults, seen, results, stdioVars, sseVars, gateVars,
                   storeVars, mainVars>>

\* SSE bridge, lines 122-172: the three resources, up to the await of
\* list_resources / read_resource.
SseResource(i, name, params) ==
    /\ ssepc = "serving"
    /\ Free(i)
    /\ inv' = [inv EXCEPT ![i] =
           [bridge |-> "sse", kind |-> "resource", name |-> name,
            params |-> params]]
    /\ IF mcp_session = None
       THEN /\ Ends(i, ResourceExcept(name,
                      NoneTypeError(ResourceCall(name, params).op)))
            /\ UNCHANGED upstream
       ELSE Issues(i, ResourceCall(name, params))
    /\ UNCHANGED <<faults, seen, results, stdioVars, sseVars, gateVars,
                   storeVars, mainVars>>

\* The awaited operation returned: the handler returns the response.
UpstreamReturns(i, response) ==
    /\ cpc[i] = "awaiting"
    /\ Serving(inv[i].bridge)
    /\ results' = [results EXCEPT ![i] = Append(@, response)]
    /\ Ends(i, Return(response))
    /\ UNCHANGED <<inv, upstream, faults, seen, stdioVars, sseVars, gateVars,
                   storeVars, mainVars>>

\* UpstreamRaises retrying the operation once before it reports the fault.
UpstreamRaisesRetry(i, message) ==
    /\ cpc[i] = "awaiting"
    /\ Serving(inv[i].bridge)
    /\ faults' = [faults EXCEPT ![i] = Append(@, message)]
    /\ IF Len(upstream[i]) < 2
       THEN /\ upstream' = [upstream EXCEPT ![i] = Append(@, upstream[i][1])]
            /\ UNCHANGED <<cpc, outcome, reported>>
       ELSE /\ Ends(i, HandlerExcept(inv[i], <<message>>))
            /\ UNCHANGED upstream
    /\ UNCHANGED <<inv, seen, results, stdioVars, sseVars, gateVars,
                   storeVars, mainVars>>

\* The awaited operation raised: the handler's except clause runs.
UpstreamRaises(i, message) ==
    /\ cpc[i] = "awaiting"
    /\ Serving(inv[i].bridge)
    /\ faults' = [faults EXCEPT ![i] = Append(@, message)]
    /\ Ends(i, HandlerExcept(inv[i], <<message>>))
    /\ UNCHANGED <<inv, upstream, seen, results, stdioVars, sseVars, gateVars,
                   storeVars, mainVars>>

(***************************************************************************)
(* stdio bridge: __main__ and init_op_client_sync                          *)
(***************************************************************************)
\* The daemon thread runs while the process lives.
ThreadAt(position) == ipc = position /\ mpc # "exited"

\* Lines 163-165: the thread is started.
StartInitThread ==
    /\ mpc = "start"
    /\ mpc' = "joining"
    /\ ipc' = "setup"
    /\ UNCHANGED <<op_client, op_session, is_initialized, init_error,
                   connects, opened, closed, join_ipc, sseVars, callVars,
                   gateVars, storeVars, mainVars>>

\* Lines 87-92: the except and finally clauses of init_op_client_sync.
InitExcept(message) ==
    /\ init_error' = <<message>>
    /\ is_initialized' = TRUE
    /\ ipc' = "finished"

\* Lines 38-62: imports, Authed.from_env(), AuthedMCPClient(...), the loop;
\* then line 66 starts connect_and_execute.
InitSetup(result) ==
    /\ ThreadAt("setup")
    /\ IF result = "ok"
       THEN /\ ipc' = "connecting"
            /\ connects' = connects + 1
            /\ UNCHANGED <<init_error, is_initialized>>
       ELSE /\ InitExcept(result)
            /\ UNCHANGED connects
    /\ UNCHANGED <<op_client, op_session, mpc, opened, closed, join_ipc,
                   sseVars, callVars, gateVars, storeVars, mainVars>>

\* ConnectReturns dropping a session that arrives after join gave up.
ConnectReturnsInTime ==
    /\ ThreadAt("connecting")
    /\ op_session' = IF mpc = "joining" THEN Session ELSE None
    /\ opened' = opened + 1
    /\ ipc' = "testing"
    /\ UNCHANGED <<op_client, is_initialized, init_error, mpc, connects,
                   closed, join_ipc, sseVars, callVars, gateVars, storeVars,
                   mainVars>>

\* Lines 66-72: connect_and_execute returned the session.
ConnectReturns ==
    /\ ThreadAt("connecting")
    /\ op_session' = Session
    /\ opened' = opened + 1
    /\ ipc' = "testing"
    /\ UNCHANGED <<op_client, is_initialized, init_error, mpc, connects,
                   closed, join_ipc, sseVars, callVars, gateVars, storeVars,
                   mainVars>>

\* Lines 66-72 raising.
ConnectRaises(message) ==
    /\ ThreadAt("connecting")
    /\ InitExcept(message)
    /\ UNCHANGED <<op_client, op_session, mpc, connects, opened, closed,
                   join_ipc, sseVars, callVars, gateVars, storeVars, mainVars>>

\* Lines 75-85 and 92: list_tools returned.
ListToolsReturns ==
    /\ ThreadAt("testing")
    /\ op_client' = McpClient
    /\ is_initialized' = TRUE
    /\ ipc' = "finished"
    /\ UNCHANGED <<op_session, init_error, mpc, connects, opened, closed,
                   join_ipc, sseVars, callVars, gateVars, storeVars, mainVars>>

\* Line 75 raising.
ListToolsRaises(message) ==
    /\ ThreadAt("testing")
    /\ InitExcept(message)
    /\ UNCHANGED <<op_client, op_session, mpc, connects, opened, closed,
                   join_ipc, sseVars, callVars, gateVars, storeVars, mainVars>>

\* Lines 168-172: join returned (the thread ended, or 10 seconds passed) and
\* mcp.run serves the tools.
JoinReturns ==
    /\ mpc = "joining"
    /\ mpc' = "serving"
    /\ join_ipc' = ipc
    /\ UNCHANGED <<op_client, op_session, is_initialized, init_error, ipc,
                   connects, opened, closed, sseVars, callVars, gateVars,
                   storeVars, mainVars>>

\* Line 172: mcp.run returned or raised; nothing follows it, the process
\* ends and its daemon thread with it.
StdioExit ==
    /\ mpc = "serving"
    /\ mpc' = "exited"
    /\ UNCHANGED <<op_client, op_session, is_initialized, init_error, ipc,
                   connects, opened, closed, join_ipc, sseVars, callVars,
                   gateVars, storeVars, mainVars>>

(***************************************************************************)
(* SSE bridge: main                                                        *)
(***************************************************************************)
\* SseServe with the commented-out connection of app_lifespan (lines 60-93)
\* in force.
SseServeConnects ==
    /\ ssepc = "start"
    /\ ssepc' = "serving"
    /\ mcp_session' = Session
    /\ UNCHANGED <<stdioVars, callVars, gateVars, storeVars, mainVars>>

\* Lines 245-249 and 54-100: mcp.run(transport="sse"); app_lifespan assigns
\* none of the globals before it yields.
SseServe ==
    /\ ssepc = "start"
    /\ ssepc' = "serving"
    /\ UNCHANGED <<mcp_session, stdioVars, callVars, gateVars, storeVars,
                   mainVars>>

\* Lines 101-105: the finally clause of app_lifespan as the server stops;
\* the close of mcp_session is commented out.
SseExit ==
    /\ ssepc = "serving"
    /\ ssepc' = "exited"
    /\ UNCHANGED <<mcp_session, stdioVars, callVars, gateVars, storeVars,
                   mainVars>>

(***************************************************************************)
(* OnePasswordClient (op_client.py) and the tools of server.py             *)
(***************************************************************************)
\* The client Client.authenticate returns.
SdkClient == <<"onepassword.client.Client">>

\* os.getenv("OP_SERVICE_ACCOUNT_TOKEN"): unset, or a token.
TokenValues == { None, <<"ops_token">> }

Uppers ==
    <<"A", "B", "C", "D", "E", "F", "G", "H", "I", "J", "K", "L", "M",
      "N", "O", "P", "Q", "R", "S", "T", "U", "V", "W", "X", "Y", "Z">>

Lowers ==
    <<"a", "b", "c", "d", "e", "f", "g", "h", "i", "j", "k", "l", "m",
      "n", "o", "p", "q", "r", "s", "t", "u", "v", "w", "x", "y", "z">>

\* str.lower
Lower(s) ==
    [k \in 1..Len(s) |->
        IF \E u \in 1..Len(Uppers) : Uppers[u] = s[k]
        THEN Lowers[CHOOSE u \in 1..Len(Uppers) : Uppers[u] = s[k]]
        ELSE s[k]]

\* The sequences over S of length at most n.
RECURSIVE SeqsUpTo(_, _)
SeqsUpTo(S, n) ==
    IF n = 0 THEN { <<>> }
    ELSE SeqsUpTo(S, n - 1) \cup
         { Append(q, x) : q \in { p \in SeqsUpTo(S, n - 1) : Len(p) = n - 1 },
                          x \in S }

\* The lists of distinct elements of S, in every order.
ListsOf(S) ==
    { q \in SeqsUpTo(S, Cardinality(S)) :
          \A j, k \in 1..Len(q) : j # k => q[j] # q[k] }

\* The vaults vaults.list_all() may yield (objects with id and title).
StoreVaults ==
    { [id |-> "v1", title |-> "Personal"], [id |-> "v2", title |-> "authed"] }

StoreVaultLists == ListsOf(StoreVaults)

\* The field names get_secret is called with.
SecretFieldNames ==
    { None,
      <<"p", "a", "s", "s", "w", "o", "r", "d">>,
      <<"U", "S", "E", "R">> }

\* The fields an item of the store may carry (objects with id, label, value).
StoreFields ==
    { [id |-> <<"f", "1">>,
       label |-> <<"p", "a", "s", "s", "w", "o", "r", "d">>,
       value |-> <<"s1">>],
      [id |-> <<"P", "a", "s", "s", "w", "o", "r", "d">>,
       label |-> <<"u", "s", "e", "r">>,
       value |-> <<"s2">>] }

\* The items items.get(item_id, vault_id) may return.
StoreItems ==
    { [id |-> item_id, title |-> "login", fields |-> fields] :
          item_id \in ItemIds, fields \in ListsOf(StoreFields) }

\* The item summaries items.list_all(vault_id) may yield.
StoreItemLists == ListsOf({ [id |-> "i1", title |-> "login"] })

\* What secrets.resolve may return.
ResolvedValues == { <<"s9">> }

\* str(e) of the exceptions the SDK may raise.
AuthenticateFaults == { <<"invalid service account token">> }

ValidateFaults == { <<"secret reference is not valid">> }

ResolveFaults == { <<"secret reference could not be resolved">> }

ItemsGetFaults == { <<"item not found">> }

ListAllFaults == { <<"rate limited">> }

\* The methods of OnePasswordClient the tools call, with their arguments.
MethodNames == { "get_secret", "list_vaults", "list_items" }

MethodArgs(name) ==
    CASE name = "get_secret" ->
             [ vault_id : VaultIds, item_id : ItemIds,
               field_name : SecretFieldNames ]
      [] name = "list_vaults" -> { EmptyDict }
      [] name = "list_items" -> [ vault_id : VaultIds ]

NoTask == [none |-> "task"]

\* raise ValueError(message)
RaiseValueError(message) ==
    [how |-> "raise", value |-> [exception |-> message, type |-> "ValueError"]]

\* Line 17: raise ValueError("OP_SERVICE_ACCOUNT_TOKEN ... is not set")
TokenNotSet ==
    RaiseValueError(
        <<"OP_SERVICE_ACCOUNT_TOKEN environment variable is not set">>)

\* Line 45: f"op://{vault_id}/{item_id}/{field_name}"
SecretRef(args) ==
    <<"op://", args.vault_id, "/", args.item_id, "/">> \o args.field_name

\* Line 67: the test of the scan on one field.
FieldMatches(field, field_name) ==
    \/ Lower(field.label) = Lower(field_name)
    \/ Lower(field.id) = Lower(field_name)

\* Line 69: f"Field '{field_name}' not found in item '{item_id}'"
FieldNotFound(field_name, item_id) ==
    <<"Field '">> \o field_name \o <<"' not found in item '", item_id, "'">>

\* Lines 71-72: raise ValueError(f"Error getting item: {e}")
ErrorGettingItem(message) ==
    RaiseValueError(<<"Error getting item: ">> \o message)

\* ScanFields that returns the last matching field instead of the first.
ScanFieldsLast(item, args) ==
    IF \E k \in 1..Len(item.fields) :
           FieldMatches(item.fields[k], args.field_name)
    THEN Return(item.fields[
             CHOOSE k \in 1..Len(item.fields) :
                 /\ FieldMatches(item.fields[k], args.field_name)
                 /\ \A j \in (k + 1)..Len(item.fields) :
                        ~FieldMatches(item.fields[j], args.field_name)].value)
    ELSE ErrorGettingItem(FieldNotFound(args.field_name, args.item_id))

\* Lines 64-72: the loop over item.fields, inside the try of line 60.
ScanFields(item, args) ==
    IF \E k \in 1..Len(item.fields) :
           FieldMatches(item.fields[k], args.field_name)
    THEN Return(item.fields[
             CHOOSE k \in 1..Len(item.fields) :
                 /\ FieldMatches(item.fields[k], args.field_name)
                 /\ \A j \in 1..(k - 1) :
                        ~FieldMatches(item.fields[j], args.field_name)].value)
    ELSE ErrorGettingItem(FieldNotFound(args.field_name, args.item_id))

\* ListVaultsResult with the vaults in reverse order.
ListVaultsResultReversed(listed) ==
    [k \in 1..Len(listed) |->
        [id |-> listed[Len(listed) + 1 - k].id,
         name |-> listed[Len(listed) + 1 - k].title]]

\* Lines 79-83: result.append({"id": vault.id, "name": vault.title}).
ListVaultsResult(listed) ==
    [k \in 1..Len(listed) |-> [id |-> listed[k].id, name |-> listed[k].title]]

\* Lines 90-95: result.append({"id": item.id, "title": item.title}).
ListItemsResult(listed) ==
    [k \in 1..Len(listed) |-> [id |-> listed[k].id, title |-> listed[k].title]]

\* server.py, lines 143-183: what a tool makes of the way the method ended.
ToolResult(name, ended) ==
    IF ended.how = "raise"
    THEN Return([error |-> ended.value.exception])
    ELSE CASE name = "get_secret" -> Return([secret |-> ended.value])
           [] name = "list_vaults" -> Return([vaults |-> ended.value])
           [] name = "list_items" -> Return([items |-> ended.value])

\* The method of task t ends, and the tool that called it with it.
MethodEnds(t, ended) ==
    /\ mout' = [mout EXCEPT ![t] = ended]
    /\ tout' = [tout EXCEPT ![t] = ToolResult(task[t].name, ended)]
    /\ tpc' = [tpc EXCEPT ![t] = "done"]

\* The SDK operation task t awaited ended (ok or not): it is recorded.
Sdk(t, record) == sdk' = [sdk EXCEPT ![t] = Append(@, record)]

\* Body composing and resolving a reference also when no field name is given.
BodyAlwaysResolves(c) ==
    CASE c.name = "get_secret" -> "validating"
      [] c.name = "list_vaults" -> "listing_vaults"
      [] c.name = "list_items" -> "listing_items"

\* The first await of the method of invocation c once self.client is set:
\* line 49 (a field name was given), line 62 (none was), line 80, line 92.
Body(c) ==
    CASE c.name = "get_secret" ->
             IF Truthy(c.args.field_name) THEN "validating" ELSE "getting"
      [] c.name = "list_vaults" -> "listing_vaults"
      [] c.name = "list_items" -> "listing_items"

\* ResolveRaises giving up where the code falls back to the scan.
ResolveRaisesNoFallback(t, message) ==
    /\ tpc[t] = "resolving"
    /\ Sdk(t, [op |-> "resolve", ref |-> SecretRef(task[t].args),
               ok |-> FALSE])
    /\ MethodEnds(t, RaiseValueError(message))
    /\ UNCHANGED <<task, op_token, client, authenticates, gateVars,
                   bridgeVars, mainVars>>

\* MethodBegins without the test of self.op_token in connect.
MethodBeginsNoTokenCheck(t, name, args) ==
    /\ tpc[t] = "idle"
    /\ \A q \in 1..(t - 1) : tpc[q] # "idle"
    /\ task' = [task EXCEPT ![t] = [name |-> name, args |-> args]]
    /\ IF Truthy(client)
       THEN /\ tpc' = [tpc EXCEPT ![t] = Body([name |-> name, args |-> args])]
            /\ UNCHANGED authenticates
       ELSE /\ tpc' = [tpc EXCEPT ![t] = "authenticating"]
            /\ authenticates' = authenticates + 1
    /\ UNCHANGED <<sdk, mout, tout, op_token, client, gateVars, bridgeVars,
                   mainVars>>

\* A tool of server.py is invoked and calls its method: lines 39-40, 76-77 and
\* 87-88 (if not self.client: await self.connect()) and lines 16-20.
MethodBegins(t, name, args) ==
    /\ tpc[t] = "idle"
    /\ \A q \in 1..(t - 1) : tpc[q] # "idle"
    /\ task' = [task EXCEPT ![t] = [name |-> name, args |-> args]]
    /\ IF Truthy(client)
       THEN /\ tpc' = [tpc EXCEPT ![t] = Body([name |-> name, args |-> args])]
            /\ UNCHANGED <<authenticates, mout, tout>>
       ELSE IF ~Truthy(op_token)
            THEN /\ mout' = [mout EXCEPT ![t] = TokenNotSet]
                 /\ tout' = [tout EXCEPT ![t] = ToolResult(name, TokenNotSet)]
                 /\ tpc' = [tpc EXCEPT ![t] = "done"]
                 /\ UNCHANGED authenticates
            ELSE /\ tpc' = [tpc EXCEPT ![t] = "authenticating"]
                 /\ authenticates' = authenticates + 1
                 /\ UNCHANGED <<mout, tout>>
    /\ UNCHANGED <<sdk, op_token, client, gateVars, bridgeVars, mainVars>>

\* Lines 20-25: Client.authenticate returned; connect assigns self.client.
AuthenticateReturns(t) ==
    /\ tpc[t] = "authenticating"
    /\ client' = SdkClient
    /\ tpc' = [tpc EXCEPT ![t] = Body(task[t])]
    /\ UNCHANGED <<task, sdk, mout, tout, op_token, authenticates, gateVars,
                   bridgeVars, mainVars>>

\* Line 20 raising: nothing catches it inside the method.
AuthenticateRaises(t, message) ==
    /\ tpc[t] = "authenticating"
    /\ MethodEnds(t, Raise(message))
    /\ UNCHANGED <<task, sdk, op_token, client, authenticates, gateVars,
                   bridgeVars, mainVars>>

\* Lines 48-51: validate_secret_reference returned, or raised and the except
\* clause printed a warning; line 54 follows either way.
ValidateEnds(t, ok) ==
    /\ tpc[t] = "validating"
    /\ Sdk(t, [op |-> "validate", ref |-> SecretRef(task[t].args), ok |-> ok])
    /\ tpc' = [tpc EXCEPT ![t] = "resolving"]
    /\ UNCHANGED <<task, mout, tout, op_token, client, authenticates,
                   gateVars, bridgeVars, mainVars>>

\* Line 54: secrets.resolve returned; get_secret returns its value.
ResolveReturns(t, value) ==
    /\ tpc[t] = "resolving"
    /\ Sdk(t, [op |-> "resolve", ref |-> SecretRef(task[t].args),
               ok |-> TRUE, value |-> value])
    /\ MethodEnds(t, Return(value))
    /\ UNCHANGED <<task, op_token, client, authenticates, gateVars,
                   bridgeVars, mainVars>>

\* Lines 54-57: secrets.resolve raised; the except clause prints and the
\* fallback of line 60 follows.
ResolveRaises(t, message) ==
    /\ tpc[t] = "resolving"
    /\ Sdk(t, [op |-> "resolve", ref |-> SecretRef(task[t].args),
               ok |-> FALSE])
    /\ tpc' = [tpc EXCEPT ![t] = "getting"]
    /\ UNCHANGED <<task, mout, tout, op_token, client, authenticates,
                   gateVars, bridgeVars, mainVars>>

\* Lines 62-70: items.get returned the item.
ItemsGetReturns(t, item) ==
    /\ tpc[t] = "getting"
    /\ item.id = task[t].args.item_id
    /\ Sdk(t, [op |-> "items.get", item_id |-> task[t].args.item_id,
               vault_id |-> task[t].args.vault_id, ok |-> TRUE,
               value |-> item])
    /\ MethodEnds(t, IF Truthy(task[t].args.field_name)
                     THEN ScanFields(item, task[t].args)
                     ELSE Return(item))
    /\ UNCHANGED <<task, op_token, client, authenticates, gateVars,
                   bridgeVars, mainVars>>

\* Lines 62 and 71-72: items.get raised.
ItemsGetRaises(t, message) ==
    /\ tpc[t] = "getting"
    /\ Sdk(t, [op |-> "items.get", item_id |-> task[t].args.item_id,
               vault_id |-> task[t].args.vault_id, ok |-> FALSE])
    /\ MethodEnds(t, ErrorGettingItem(message))
    /\ UNCHANGED <<task, op_token, client, authenticates, gateVars,
                   bridgeVars, mainVars>>

\* Lines 80-83: vaults.list_all() yielded the vaults in listed.
ListVaultsReturns(t, listed) ==
    /\ tpc[t] = "listing_vaults"
    /\ Sdk(t, [op |-> "vaults.list_all", ok |-> TRUE, value |-> listed])
    /\ MethodEnds(t, Return(ListVaultsResult(listed)))
    /\ UNCHANGED <<task, op_token, client, authenticates, gateVars,
                   bridgeVars, mainVars>>

\* Lines 92-95: items.list_all(vault_id) yielded the items in listed.
ListItemsReturns(t, listed) ==
    /\ tpc[t] = "listing_items"
    /\ Sdk(t, [op |-> "items.list_all", vault_id |-> task[t].args.vault_id,
               ok |-> TRUE, value |-> listed])
    /\ MethodEnds(t, Return(ListItemsResult(listed)))
    /\ UNCHANGED <<task, op_token, client, authenticates, gateVars,
                   bridgeVars, mainVars>>

\* Lines 80-81 or 92-93 raising: nothing catches it inside the method.
ListAllRaises(t, message) ==
    /\ tpc[t] \in {"listing_vaults", "listing_items"}
    /\ Sdk(t, [op |-> IF tpc[t] = "listing_vaults" THEN "vaults.list_all"
                      ELSE "items.list_all",
               ok |-> FALSE])
    /\ MethodEnds(t, Raise(message))
    /\ UNCHANGED <<task, op_token, client, authenticates, gateVars,
                   bridgeVars, mainVars>>

(***************************************************************************)
(* The secret-store server: main of server.py and of server_new.py         *)
(***************************************************************************)
\* The two modules that run the secret-store server.
Entries == {"server", "server_new"}

\* The server both modules create (server.py, line 104; server_new.py,
\* line 117).
CreatedServer == <<"1password-secrets-server">>

\* What create_server, the registrations and checks of server.py, and the
\* call that runs the server can raise.
CreateServerFaults == {<<"registry not configured">>}

RegisterFaults == {<<"'AuthedMCPServer' object has no attribute 'mcp'">>}

RunServerFaults == {<<"address already in use">>}

\* The except clause of main (server.py, lines 205-208; server_new.py, lines
\* 280-283): the error is logged and main ends.
MainExcept ==
    /\ srvpc' = "ended"
    /\ UNCHANGED <<server, started>>

\* main calls op_client.connect() (server.py, line 101; server_new.py, line
\* 270); connect raises at once without a token (op_client.py, lines 16-17)
\* and awaits Client.authenticate otherwise.
MainConnect ==
    /\ srvpc = "start"
    /\ IF ~Truthy(op_token)
       THEN /\ connected' = TokenNotSet
            /\ MainExcept
            /\ UNCHANGED authenticates
       ELSE /\ srvpc' = "connecting"
            /\ authenticates' = authenticates + 1
            /\ UNCHANGED <<server, connected, started>>
    /\ UNCHANGED <<entry, op_token, client, task, tpc, sdk, mout, tout,
                   gateVars, bridgeVars>>

\* MainAuthenticateRaises with the failure of connect swallowed: main goes
\* on to create the server.
MainAuthenticateRaisesServes(message) ==
    /\ srvpc = "connecting"
    /\ connected' = Raise(message)
    /\ srvpc' = "connected"
    /\ UNCHANGED <<entry, server, started, storeVars, gateVars, bridgeVars>>

\* op_client.py, lines 20-25: Client.authenticate returned, connect assigns
\* self.client and returns; main logs "Connected to 1Password".
MainAuthenticateReturns ==
    /\ srvpc = "connecting"
    /\ client' = SdkClient
    /\ connected' = Return(None)
    /\ srvpc' = "connected"
    /\ UNCHANGED <<entry, server, started, op_token, authenticates, task,
                   tpc, sdk, mout, tout, gateVars, bridgeVars>>

\* Client.authenticate raised: connect raises and main's except clause ends
\* main.
MainAuthenticateRaises(message) ==
    /\ srvpc = "connecting"
    /\ connected' = Raise(message)
    /\ MainExcept
    /\ UNCHANGED <<entry, storeVars, gateVars, bridgeVars>>

\* server.py, line 104 / server_new.py, line 274: create_server returns the
\* server.  server_new.py registers the resources and tools inside
\* create_server; server.py registers them in main, next.
MainCreateServer ==
    /\ srvpc = "connected"
    /\ server' = CreatedServer
    /\ srvpc' = IF entry = "server" THEN "registering" ELSE "created"
    /\ UNCHANGED <<entry, connected, started, storeVars, gateVars,
                   bridgeVars>>

\* create_server raised.
MainCreateServerRaises(message) ==
    /\ srvpc = "connected"
    /\ MainExcept
    /\ UNCHANGED <<entry, connected, storeVars, gateVars, bridgeVars>>

\* server.py, lines 107-199: the resources and tools are registered and the
\* registrations are checked.
MainRegister ==
    /\ srvpc = "registering"
    /\ srvpc' = "created"
    /\ UNCHANGED <<entry, server, connected, started, storeVars, gateVars,
                   bridgeVars>>

\* A registration or a check of server.py raised.
MainRegisterRaises(message) ==
    /\ srvpc = "registering"
    /\ MainExcept
    /\ UNCHANGED <<entry, connected, storeVars, gateVars, bridgeVars>>

\* server.py, line 202: run_server(server, ...); server_new.py, lines
\* 226-264: run_server_with_auth(server).  The server is listening.
MainRunServer ==
    /\ srvpc = "created"
    /\ srvpc' = "serving"
    /\ started' = TRUE
    /\ UNCHANGED <<entry, server, connected, storeVars, gateVars, bridgeVars>>

\* The call that runs the server raised before it listened.
MainRunServerRaises(message) ==
    /\ srvpc = "created"
    /\ MainExcept
    /\ UNCHANGED <<entry, connected, storeVars, gateVars, bridgeVars>>

\* The server stopped: the call that runs it returned and main ends
\* (server.py, line 204).
MainServerStops ==
    /\ srvpc = "serving"
    /\ srvpc' = "ended"
    /\ UNCHANGED <<entry, server, connected, started, storeVars, gateVars,
                   bridgeVars>>

\* The running server accepts a request for one of its tools and the tool
\* calls its method (server.py, lines 143-183; server_new.py, lines 157-204).
ServeTool(t, name, args) ==
    /\ srvpc = "serving"
    /\ MethodBegins(t, name, args)

\* The state of the programs as their modules are loaded: the gate has
\* served nothing (server_new.py), the globals of both bridges are None
\* (stdio: lines 29-32; SSE: lines 42-44), OnePasswordClient() holds no
\* client (op_client.py, line 12).
Loaded ==
    /\ reqs = [r \in Slots |-> NoReq]
    /\ gpc = [r \in Slots |-> "idle"]
    /\ proof = [r \in Slots |-> NoProof]
    /\ proofs_built = 0
    /\ verify = [r \in Slots |-> NoCall]
    /\ answer = [r \in Slots |-> NoAnswer]
    /\ fwd = [r \in Slots |-> NoReq]
    /\ handled = [r \in Slots |-> NoResp]
    /\ resp = [r \in Slots |-> NoResp]
    /\ op_client = None
    /\ op_session = None
    /\ is_initialized = FALSE
    /\ init_error = None
    /\ ipc = "not_started"
    /\ mpc = "start"
    /\ mcp_session = None
    /\ ssepc = "start"
    /\ inv = [i \in Calls |-> NoInv]
    /\ cpc = [i \in Calls |-> "idle"]
    /\ upstream = [i \in Calls |-> <<>>]
    /\ faults = [i \in Calls |-> <<>>]
    /\ outcome = [i \in Calls |-> NoOutcome]
    /\ reported = [i \in Calls |-> 0]
    /\ connects = 0
    /\ opened = 0
    /\ closed = FALSE
    /\ join_ipc = "pending"
    /\ seen = [i \in Calls |-> NoSeen]
    /\ results = [i \in Calls |-> <<>>]
    /\ client = None
    /\ authenticates = 0
    /\ task = [t \in Tasks |-> NoTask]
    /\ tpc = [t \in Tasks |-> "idle"]
    /\ sdk = [t \in Tasks |-> <<>>]
    /\ mout = [t \in Tasks |-> NoOutcome]
    /\ tout = [t \in Tasks |-> NoOutcome]
    /\ srvpc = "start"
    /\ server = None
    /\ connected = NoOutcome
    /\ started = FALSE

BridgeNext ==
    \/ StartInitThread
    \/ \E result \in {"ok"} \cup SetupFaults : InitSetup(result)
    \/ ConnectReturns
    \/ \E message \in ConnectFaults : ConnectRaises(message)
    \/ ListToolsReturns
    \/ \E message \in ListToolsFaults : ListToolsRaises(message)
    \/ JoinReturns
    \/ StdioExit
    \/ SseServe
    \/ SseExit
    \/ \E i \in Calls, name \in ToolNames :
           \E params \in ToolParams(name) : StdioTool(i, name, params)
    \/ \E i \in Calls, name \in ToolNames :
           \E params \in ToolParams(name) : SseTool(i, name, params)
    \/ \E i \in Calls, name \in ResourceNames :
           \E params \in ResourceParams(name) : SseResource(i, name, params)
    \/ \E i \in Calls, response \in UpstreamPayloads :
           UpstreamReturns(i, response)
    \/ \E i \in Calls, message \in UpstreamFaults : UpstreamRaises(i, message)

StoreNext ==
    \/ \E t \in Tasks, name \in MethodNames :
           \E args \in MethodArgs(name) : MethodBegins(t, name, args)
    \/ \E t \in Tasks : AuthenticateReturns(t)
    \/ \E t \in Tasks, message \in AuthenticateFaults :
           AuthenticateRaises(t, message)
    \/ \E t \in Tasks, ok \in BOOLEAN : ValidateEnds(t, ok)
    \/ \E t \in Tasks, value \in ResolvedValues : ResolveReturns(t, value)
    \/ \E t \in Tasks, message \in ResolveFaults : ResolveRaises(t, message)
    \/ \E t \in Tasks, item \in StoreItems : ItemsGetReturns(t, item)
    \/ \E t \in Tasks, message \in ItemsGetFaults : ItemsGetRaises(t, message)
    \/ \E t \in Tasks, listed \in StoreVaultLists :
           ListVaultsReturns(t, listed)
    \/ \E t \in Tasks, listed \in StoreItemLists : ListItemsReturns(t, listed)
    \/ \E t \in Tasks, message \in ListAllFaults : ListAllRaises(t, message)

\* The steps of a run of the server.  Its tools are called through ServeTool
\* alone, and a tool that finds self.client set awaits no authenticate.
MainNext ==
    \/ MainConnect
    \/ MainAuthenticateReturns
    \/ \E message \in AuthenticateFaults : MainAuthenticateRaises(message)
    \/ MainCreateServer
    \/ \E message \in CreateServerFaults : MainCreateServerRaises(message)
    \/ MainRegister
    \/ \E message \in RegisterFaults : MainRegisterRaises(message)
    \/ MainRunServer
    \/ \E message \in RunServerFaults : MainRunServerRaises(message)
    \/ MainServerStops
    \/ \E t \in Tasks, name \in MethodNames :
           \E args \in MethodArgs(name) : ServeTool(t, name, args)
    \/ \E t \in Tasks, ok \in BOOLEAN : ValidateEnds(t, ok)
    \/ \E t \in Tasks, value \in ResolvedValues : ResolveReturns(t, value)
    \/ \E t \in Tasks, message \in ResolveFaults : ResolveRaises(t, message)
    \/ \E t \in Tasks, item \in StoreItems : ItemsGetReturns(t, item)
    \/ \E t \in Tasks, message \in ItemsGetFaults : ItemsGetRaises(t, message)
    \/ \E t \in Tasks, listed \in StoreVaultLists :
           ListVaultsReturns(t, listed)
    \/ \E t \in Tasks, listed \in StoreItemLists : ListItemsReturns(t, listed)
    \/ \E t \in Tasks, message \in ListAllFaults : ListAllRaises(t, message)

(***************************************************************************)
(* Specifications                                                          *)
(***************************************************************************)
\* The secret-store server's middleware alone, as the file stands and with
\* its unbound names supplied.
InitGate ==
    /\ Loaded
    /\ names_bound \in BOOLEAN
    /\ op_token = None
    /\ entry = "server_new"

SpecGate == InitGate /\ [][GateNext]_vars

\* The two bridges alone.
InitBridge ==
    /\ Loaded
    /\ names_bound = TRUE
    /\ op_token = None
    /\ entry = "server_new"

SpecBridge == InitBridge /\ [][BridgeNext]_vars

\* The two bridges, with the steps that need nothing from outside the
\* process taken in the end: the thread, once started, reaches line 66, and
\* join returns after 10 seconds at the latest (line 168).  No step of the
\* upstream server is forced.
SpecBridgeLive ==
    /\ SpecBridge
    /\ WF_vars(StartInitThread)
    /\ WF_vars(JoinReturns)

\* OnePasswordClient and the tools of server.py alone.
InitStore ==
    /\ Loaded
    /\ names_bound = TRUE
    /\ op_token \in TokenValues
    /\ entry = "server"

SpecStore == InitStore /\ [][StoreNext]_vars

\* The secret-store server run from either module, with or without a token.
InitMain ==
    /\ Loaded
    /\ names_bound = TRUE
    /\ op_token \in TokenValues
    /\ entry \in Entries

SpecMain == InitMain /\ [][MainNext]_vars

(***************************************************************************)
(* Properties of AuthedMiddleware.dispatch                                 *)
(***************************************************************************)
\* The request of slot r carries "Authorization: Bearer ..." / a dpop header.
HasBearer(r) ==
    /\ reqs[r] # NoReq
    /\ StartsWith(HeadersGet(reqs[r], "authorization"), BearerPrefix)

HasDpop(r) == reqs[r] # NoReq /\ Truthy(HeadersGet(reqs[r], "dpop"))

\* call_next was invoked for slot r.
Invoked(r) == fwd[r] # NoReq

\* The authority answered the verify call of slot r (no fault).
Answered(r) == answer[r] \in AuthorityAnswers

\* C1: the downstream handler is invoked for a request only if that request
\* carried a Bearer authorization header and a dpop header and its own verify
\* call completed without fault with status 200; a fault while building the
\* proof or calling the authority never leads to the handler.
C1_HandlerOnlyAfterAccept ==
    \A r \in Slots :
        /\ Invoked(r) =>
               /\ HasBearer(r)
               /\ HasDpop(r)
               /\ verify[r] # NoCall
               /\ Answered(r)
               /\ answer[r].status = 200
        /\ (handled[r] # NoResp \/ gpc[r] = "handler") => Invoked(r)
        /\ (gpc[r] = "done" /\ resp[r].origin = "handler") => Invoked(r)

C1_Witness ==
    \E r, q \in Slots :
        /\ gpc[r] = "done" /\ Invoked(r) /\ resp[r].origin = "handler"
        /\ gpc[q] = "done" /\ ~Invoked(q) /\ verify[q] # NoCall
        /\ ~Answered(q)

\* C2: a request without the Bearer authorization or without the dpop header
\* is answered 401, and neither a proof is built nor a POST to /tokens/verify
\* issued for it.
C2_MissingCredentialNoAuthorityCall ==
    /\ \A r \in Slots :
           (gpc[r] # "idle" /\ ~(HasBearer(r) /\ HasDpop(r))) =>
               /\ gpc[r] = "done"
               /\ resp[r].origin = "gate"
               /\ resp[r].status = 401
               /\ proof[r] = NoProof
               /\ verify[r] = NoCall
               /\ answer[r] = NoAnswer
    /\ proofs_built = Cardinality({r \in Slots : verify[r] # NoCall})

C2_Witness ==
    \E r, q \in Slots :
        /\ gpc[r] = "done" /\ HasBearer(r) /\ ~HasDpop(r)
        /\ gpc[q] = "done" /\ ~HasBearer(q) /\ HasDpop(q)
        /\ resp[r].status = 401 /\ resp[q].status = 401

C6_NoVerificationCached ==
    /\ \A r \in Slots :
           (gpc[r] # "idle" /\ HasBearer(r) /\ HasDpop(r)) =>
               \/ /\ proof[r] # NoProof
                  /\ verify[r] # NoCall
                  /\ verify[r].headers.dpop = proof[r]
                  /\ gpc[r] = "verifying" <=> answer[r] = NoAnswer
               \/ /\ proof[r] = NoProof
                  /\ verify[r] = NoCall
                  /\ gpc[r] = "done"
                  /\ \E f \in BuildOutcomes \ {"ok"} :
                         resp[r] = FaultResponse(f)
    /\ \A r, q \in Slots :
           (r # q /\ proof[r] # NoProof /\ proof[q] # NoProof) =>
               proof[r] # proof[q]
    /\ \A r \in Slots :
           Invoked(r) <=> (Answered(r) /\ answer[r].status = 200)

C6_Witness ==
    \E r, q \in Slots :
        /\ r < q
        /\ reqs[r] = reqs[q]
        /\ Invoked(r) /\ gpc[r] = "done"
        /\ gpc[q] = "done" /\ ~Invoked(q)
        /\ Answered(q) /\ answer[q].status = 403
        /\ proof[q] # proof[r]

\* The token of a header "Bearer <token>": what follows the scheme.
CallerToken(auth_header) ==
    SubSeq(auth_header, Len(BearerPrefix) + 1, Len(auth_header))

\* The part of C7 about the proof and the method: the POST carries a proof
\* bound to POST and to the URL the POST goes to, not the caller's own proof
\* and not the original request's method or URL, and carries the original
\* request's method as original-method.
C7_ProofAndMethod ==
    \A r \in Slots :
        verify[r] # NoCall =>
            LET p == verify[r].headers.dpop
            IN  /\ verify[r].method = "POST"
                /\ p[1] = "POST"
                /\ p[2] = verify[r].url
                /\ p[2] # reqs[r].url
                /\ p # HeadersGet(reqs[r], "dpop")
                /\ p = proof[r]
                /\ verify[r].headers.original_method = reqs[r].method

\* The part of C7 about the token: the POST carries the caller's token as
\* bearer and in the body.
C7_TokenCarried ==
    \A r \in Slots :
        verify[r] # NoCall =>
            LET t == CallerToken(HeadersGet(reqs[r], "authorization"))
            IN  /\ verify[r].headers.authorization = BearerPrefix \o t
                /\ verify[r].json.token = t

\* With server_new.py as it stands, no request reaches the authority or the
\* handler: each one that passes the header checks is answered 401 with the
\* NameError of line 74.
AsWritten_EveryRequestDenied ==
    ~names_bound =>
        \A r \in Slots :
            /\ verify[r] = NoCall
            /\ ~Invoked(r)
            /\ gpc[r] \in {"idle", "done"}
            /\ (gpc[r] = "done" /\ HasBearer(r) /\ HasDpop(r)) =>
                   resp[r] = FaultResponse(NameError)

IsC8Request(r) ==
    /\ gpc[r] # "idle"
    /\ HeadersGet(reqs[r], "authorization") =
           BearerPrefix \o <<"a", "b", "c", "1", "2", "3">>
    /\ HeadersGet(reqs[r], "dpop") = None

\* C8 (as claimed): that request is answered 401 with body
\* {"detail": "missing proof-of-possession"}.
C8_Original ==
    \A r \in Slots :
        IsC8Request(r) =>
            /\ resp[r].status = 401
            /\ resp[r].detail = <<"missing proof-of-possession">>

\* C8 (amended): that request is answered 401 with body
\* {"detail": "Authentication failed - missing DPoP proof header"}.
C8_MissingProofBody ==
    \A r \in Slots :
        IsC8Request(r) =>
            /\ gpc[r] = "done"
            /\ resp[r] = [origin |-> "gate", status |-> 401, detail |->
                   <<"Authentication failed - missing DPoP proof header">>]

C8_Witness == \E r \in Slots : IsC8Request(r) /\ resp[r].status = 401

(***************************************************************************)
(* Properties of the proxy handlers                                        *)
(***************************************************************************)
\* Handler i ended by handing back {"error": message}.
ReturnedError(i) ==
    /\ outcome[i].how = "return"
    /\ DOMAIN outcome[i].value = {"error"}

\* The part of C9 about the tools: a finished tool handler of either bridge
\* has returned, never raised.
C9_ToolsNormalized ==
    \A i \in Calls :
        (cpc[i] = "done" /\ inv[i].kind = "tool") => outcome[i].how = "return"

\* C9: every error met while serving a proxy tool invocation or a proxy
\* resource read is returned as {"error": message}; no proxy tool or resource
\* handler raises an exception to the framework.
C9_ErrorsNormalized ==
    \A i \in Calls :
        cpc[i] = "done" =>
            /\ outcome[i].how = "return"
            /\ (faults[i] # <<>> \/ upstream[i] = <<>>) => ReturnedError(i)

\* C10: a proxy tool invocation issues at most one upstream call_tool,
\* whether it succeeds or fails, and a failure of that call ends the handler
\* at once, reported one time as {"error": str(e)}.
C10_NoRetry ==
    \A i \in Calls :
        (cpc[i] # "idle" /\ inv[i].kind = "tool") =>
            /\ Len(upstream[i]) <= 1
            /\ Len(faults[i]) <= 1
            /\ reported[i] = (IF cpc[i] = "done" THEN 1 ELSE 0)
            /\ faults[i] # <<>> =>
                   /\ cpc[i] = "done"
                   /\ outcome[i] = Return([error |-> <<faults[i][1]>>])

C10_Witness ==
    \E i, j \in Calls :
        /\ cpc[i] = "done" /\ cpc[j] = "done"
        /\ inv[i].kind = "tool" /\ inv[j].kind = "tool"
        /\ Len(upstream[i]) = 1 /\ Len(faults[i]) = 1
        /\ reported[i] = 1 /\ ReturnedError(i)
        /\ Len(upstream[j]) = 1 /\ faults[j] = <<>>
        /\ outcome[j].value \in UpstreamPayloads

(***************************************************************************)
(* Properties of the stdio bridge's session                                *)
(***************************************************************************)
\* Call i is a tool invocation the stdio bridge has taken up.
StdioCall(i) ==
    /\ cpc[i] # "idle"
    /\ inv[i].bridge = "stdio"
    /\ inv[i].kind = "tool"

\* Handler i ended with {"error": "Not connected to 1Password server"}.
NotConnected(i) ==
    /\ cpc[i] = "done"
    /\ outcome[i] =
           Return([error |-> <<"Not connected to 1Password server">>])

\* The part of C11 about the attempt itself: connect_and_execute is started
\* at most once and hands over at most one session.
C11_OneAttempt ==
    /\ connects <= 1
    /\ opened <= 1
    /\ op_session \in {None, Session}

\* C11: at most one connect attempt is ever in progress and at most one
\* session exists, and a caller that needs the session before it is ready
\* shares that attempt and observes the state it results in: once the
\* attempt has produced the session, no such caller has been told that the
\* bridge is not connected.
C11_SingleFlight ==
    /\ C11_OneAttempt
    /\ \A i \in Calls :
           (StdioCall(i) /\ seen[i].opened = 0 /\ ~seen[i].is_initialized
              /\ opened = 1)
               => ~NotConnected(i)

\* The startup wait of call i's bridge gave up before the connect attempt
\* had ended, and the attempt had handed over its session when i came.
LateSession(i) ==
    /\ StdioCall(i)
    /\ join_ipc \in {"setup", "connecting"}
    /\ seen[i].opened = 1

\* C12: when the startup wait times out and the background connect attempt
\* completes afterwards, a tool call issued after that completion uses the
\* session (one call_tool on it, never "Not connected"), returns what the
\* upstream answers, and no second connect attempt is made.
C12_LateSessionAdopted ==
    \A i \in Calls :
        LateSession(i) =>
            /\ seen[i].session = Session
            /\ upstream[i] = <<ToolCall(inv[i].name, inv[i].params)>>
            /\ ~NotConnected(i)
            /\ connects = 1
            /\ (cpc[i] = "done" /\ faults[i] = <<>>) =>
                   /\ Len(results[i]) = 1
                   /\ outcome[i] = Return(results[i][1])

C12_Witness ==
    \E i \in Calls :
        /\ LateSession(i)
        /\ cpc[i] = "done"
        /\ outcome[i] = Return([isError |-> FALSE, content |-> "payload"])

\* C13: a proxy call issued while the bridge has no ready session first
\* attempts to establish the session, and fails with a not-connected error
\* only if the bridge is still not ready after that attempt: a tool handler
\* that ends without having issued an upstream call ends only after a
\* connect attempt was started during the call.
C13_LazyEstablish ==
    [][\A i \in Calls :
           (cpc[i] # "done" /\ cpc'[i] = "done" /\ inv'[i].kind = "tool"
              /\ upstream'[i] = <<>>)
               => /\ inv'[i].bridge = "stdio"
                  /\ connects' > seen'[i].connects]_vars

\* C14: after an upstream call fails at transport level the session is no
\* longer treated as ready: the step in which a call_tool of the stdio
\* bridge raises leaves the bridge without a session it would use for the
\* next call.
C14_FaultDegrades ==
    [][\A i \in Calls :
           (Len(faults'[i]) > Len(faults[i]) /\ inv[i].bridge = "stdio")
               => ~Truthy(op_session')]_vars

\* C15: every proxy tool call eventually returns to its caller, also when
\* the upstream never answers: a handler that awaits call_tool ends while
\* its process lives (only the stdio bridge has a session to await).
C15_CallReturns ==
    \A i \in Calls :
        (cpc[i] = "awaiting") ~>
            (cpc[i] = "done" \/ (cpc[i] = "awaiting" /\ mpc = "exited"))

\* C16: the bridge takes up a tool call only after initialization has
\* finished (is_initialized true: the session is established or a failure
\* reason is recorded).
C16_ServesAfterInit ==
    \A i \in Calls : StdioCall(i) => seen[i].is_initialized

\* C17: when the bridge process has ended, a session that was established
\* has been closed.
C17_SessionClosedAtExit ==
    /\ (mpc = "exited" /\ opened > 0) => closed
    /\ (ssepc = "exited" /\ mcp_session # None) => closed

\* Call i is a tool of either bridge whose upstream call was answered.
Succeeded(i) ==
    /\ cpc[i] = "done"
    /\ inv[i].kind = "tool"
    /\ results[i] # <<>>

\* What the caller passed to tool name, as the arguments of call_tool.
CallerArguments(name, params) ==
    IF name = "onepassword_list_vaults" THEN EmptyDict ELSE params

\* C18: on success a bridge tool has issued exactly one upstream call_tool,
\* with the same tool name and the caller's arguments unmodified, and has
\* returned the upstream response unchanged.
C18_PassThrough ==
    \A i \in Calls :
        Succeeded(i) =>
            /\ Len(upstream[i]) = 1
            /\ upstream[i][1].op = "call_tool"
            /\ upstream[i][1].name = inv[i].name
            /\ upstream[i][1].arguments =
                   CallerArguments(inv[i].name, inv[i].params)
            /\ Len(results[i]) = 1
            /\ outcome[i] = Return(results[i][1])

C18_Witness ==
    \E i, j \in Calls :
        /\ Succeeded(i) /\ Succeeded(j)
        /\ inv[i].name = "onepassword_get_secret"
        /\ inv[i].params.field_name = <<"password">>
        /\ inv[j].name = "onepassword_list_items"
        /\ outcome[i].value \in UpstreamPayloads

(***************************************************************************)
(* Properties of OnePasswordClient and the tools of server.py              *)
(***************************************************************************)
\* Task t runs method name.
Runs(t, name) == tpc[t] # "idle" /\ task[t].name = name

\* The positions in sdk[t] of the operations op that ended.
Ended(t, op) == { k \in 1..Len(sdk[t]) : sdk[t][k].op = op }

\* C19: the list-vaults tool returns {"vaults": L} where L has exactly one
\* {id, name} entry per vault the store lists, in the store's order, with id
\* and name taken from that vault unchanged.
C19_ListVaultsShape ==
    \A t \in Tasks :
        (Runs(t, "list_vaults") /\ tpc[t] = "done") =>
            \A k \in Ended(t, "vaults.list_all") :
                sdk[t][k].ok =>
                    /\ tout[t].how = "return"
                    /\ DOMAIN tout[t].value = {"vaults"}
                    /\ Len(tout[t].value.vaults) = Len(sdk[t][k].value)
                    /\ \A n \in 1..Len(sdk[t][k].value) :
                           /\ DOMAIN tout[t].value.vaults[n] = {"id", "name"}
                           /\ tout[t].value.vaults[n].id =
                                  sdk[t][k].value[n].id
                           /\ tout[t].value.vaults[n].name =
                                  sdk[t][k].value[n].title

C19_Witness ==
    \E t, u \in Tasks :
        /\ tout[t] =
               Return([vaults |-> <<[id |-> "v1", name |-> "Personal"]>>])
        /\ sdk[t][Len(sdk[t])].value = <<[id |-> "v1", title |-> "Personal"]>>
        /\ tout[u] =
               Return([vaults |-> <<[id |-> "v2", name |-> "authed"],
                                    [id |-> "v1", name |-> "Personal"]>>])

\* Task t runs get_secret with a field name.
FieldLookup(t) ==
    /\ Runs(t, "get_secret")
    /\ Truthy(task[t].args.field_name)

\* secrets.resolve failed in task t.
ResolveFailed(t) == \E k \in Ended(t, "resolve") : ~sdk[t][k].ok

\* Field n of item is the first that field_name matches by label or by
\* identifier, case-insensitively.
FirstMatch(item, n, field_name) ==
    /\ n \in 1..Len(item.fields)
    /\ FieldMatches(item.fields[n], field_name)
    /\ \A j \in 1..(n - 1) : ~FieldMatches(item.fields[j], field_name)

NamedBy(field, field_name) ==
    \/ Lower(field.label) = Lower(field_name)
    \/ Lower(field.id) = Lower(field_name)

\* C21: the fallback scan returns the value of the first field, in the
\* item's field order, whose label or identifier equals field_name under
\* case-insensitive comparison; a later matching field never wins over an
\* earlier one.
C21_FirstMatchWins ==
    \A t \in Tasks :
        FieldLookup(t) =>
            \A k \in Ended(t, "items.get") :
                sdk[t][k].ok =>
                    \A n \in 1..Len(sdk[t][k].value.fields) :
                        ( /\ NamedBy(sdk[t][k].value.fields[n],
                                     task[t].args.field_name)
                          /\ \A j \in 1..(n - 1) :
                                 ~NamedBy(sdk[t][k].value.fields[j],
                                          task[t].args.field_name) )
                        => /\ tpc[t] = "done"
                           /\ mout[t].how = "return"
                           /\ mout[t].value = sdk[t][k].value.fields[n].value

\* Two fields match, the first only by its identifier in another case, and
\* its value is the one returned.
C21_Witness ==
    \E t \in Tasks :
        /\ FieldLookup(t)
        /\ tpc[t] = "done"
        /\ Len(sdk[t]) = 3
        /\ sdk[t][3].op = "items.get" /\ sdk[t][3].ok
        /\ Len(sdk[t][3].value.fields) = 2
        /\ NamedBy(sdk[t][3].value.fields[1], task[t].args.field_name)
        /\ NamedBy(sdk[t][3].value.fields[2], task[t].args.field_name)
        /\ sdk[t][3].value.fields[1].id # task[t].args.field_name
        /\ sdk[t][3].value.fields[1].label # task[t].args.field_name
        /\ sdk[t][3].value.fields[1].value # sdk[t][3].value.fields[2].value
        /\ mout[t].how = "return"
        /\ mout[t].value = sdk[t][3].value.fields[1].value

\* In task t the scan ran over an item none of whose fields field_name
\* names, after secrets.resolve had failed.
FieldNowhere(t) ==
    /\ FieldLookup(t)
    /\ ResolveFailed(t)
    /\ \E k \in Ended(t, "items.get") :
           /\ sdk[t][k].ok
           /\ \A n \in 1..Len(sdk[t][k].value.fields) :
                  ~NamedBy(sdk[t][k].value.fields[n], task[t].args.field_name)

\* The outcome is the error get_secret raises when items.get fails, such as
\* for an item that does not exist: ValueError("Error getting item: ...").
ItemError(ended) ==
    /\ ended.how = "raise"
    /\ DOMAIN ended.value = {"exception", "type"}
    /\ ended.value.type = "ValueError"
    /\ StartsWith(ended.value.exception, <<"Error getting item: ">>)

\* The part of C22 about what is returned: when neither path finds the
\* field, get_secret raises; it returns neither a value nor the item.
C22_NeverAValue ==
    \A t \in Tasks :
        FieldNowhere(t) => (tpc[t] = "done" /\ mout[t].how = "raise")

\* C22: when get_secret is given a field name and neither structured
\* resolution nor the fallback scan finds the field, it fails with a
\* field-not-found error: it returns no value and not the item, and the
\* failure is not the one raised for an item that cannot be fetched.
C22_FieldNotFound ==
    \A t \in Tasks :
        FieldNowhere(t) =>
            /\ tpc[t] = "done"
            /\ mout[t].how = "raise"
            /\ ~ItemError(mout[t])

\* validate_secret_reference rejected the reference task t composed.
ValidateFailed(t) == \E k \in Ended(t, "validate") : ~sdk[t][k].ok

\* C23: when the store reports the composed reference invalid
\* (validate_secret_reference fails), the value get_secret returns is never
\* one obtained by resolving that reference.
C23_RejectedNotResolved ==
    \A t \in Tasks :
        (FieldLookup(t) /\ ValidateFailed(t)) =>
            \A j \in Ended(t, "resolve") :
                ~ ( /\ sdk[t][j].ok
                    /\ tpc[t] = "done"
                    /\ mout[t].how = "return"
                    /\ mout[t].value = sdk[t][j].value )

\* Task t runs get_secret without a field name.
ItemLookup(t) ==
    /\ Runs(t, "get_secret")
    /\ task[t].args.field_name = None

\* C24: get_secret called with field_name None returns the entire item
\* fetched from the store and never attempts structured reference validation
\* or resolution.
C24_WholeItem ==
    \A t \in Tasks :
        ItemLookup(t) =>
            /\ tpc[t] \notin {"validating", "resolving"}
            /\ Ended(t, "validate") = {}
            /\ Ended(t, "resolve") = {}
            /\ \A k \in Ended(t, "items.get") :
                   sdk[t][k].ok =>
                       /\ tpc[t] = "done"
                       /\ mout[t].how = "return"
                       /\ mout[t].value = sdk[t][k].value

C24_Witness ==
    \E t \in Tasks :
        /\ ItemLookup(t)
        /\ tpc[t] = "done"
        /\ Len(sdk[t]) = 1
        /\ sdk[t][1].op = "items.get" /\ sdk[t][1].ok
        /\ Len(sdk[t][1].value.fields) = 2
        /\ mout[t] = Return(sdk[t][1].value)

\* C25: in the stdio bridge, whenever an initialization error has been
\* recorded the bridge holds no session; so test_tool reports "Connected to
\* 1Password server", and a onepassword_* tool calls upstream, only after an
\* initialization that completed without error.
C25_ErrorMeansNoSession ==
    /\ init_error # None => op_session = None
    /\ test_tool.connection = <<"Connected to 1Password server">> =>
           (ipc = "finished" /\ init_error = None)
    /\ \A i \in Calls :
           (StdioCall(i) /\ upstream[i] # <<>>) =>
               (seen[i].ipc = "finished" /\ init_error = None)

\* C26: a stdio-bridge tool invoked while op_session is None returns
\* {"error": "Not connected to 1Password server"}, issues no upstream call,
\* and leaves op_client, op_session, is_initialized and init_error unchanged.
C26_NotConnectedFrame ==
    [][\A i \in Calls :
           ( /\ cpc[i] = "idle"
             /\ cpc'[i] # "idle"
             /\ inv'[i].bridge = "stdio"
             /\ inv'[i].kind = "tool"
             /\ op_session = None )
           => /\ cpc'[i] = "done"
              /\ outcome'[i] =
                     Return([error |->
                                <<"Not connected to 1Password server">>])
              /\ upstream'[i] = <<>>
              /\ op_client' = op_client
              /\ op_session' = op_session
              /\ is_initialized' = is_initialized
              /\ init_error' = init_error]_vars

C26_Witness ==
    \E i \in Calls :
        /\ StdioCall(i)
        /\ inv[i].name = "onepassword_get_secret"
        /\ seen[i].session = None
        /\ NotConnected(i)
        /\ upstream[i] = <<>>

\* Call i is a tool invocation the SSE bridge has taken up.
SseCall(i) ==
    /\ cpc[i] # "idle"
    /\ inv[i].bridge = "sse"
    /\ inv[i].kind = "tool"

\* C27: in the SSE bridge mcp_session is None in every reachable state;
\* hence every onepassword_* tool invocation returns an {"error": ...} value
\* and no upstream call is ever made.
C27_SseNeverConnected ==
    /\ mcp_session = None
    /\ \A i \in Calls :
           SseCall(i) =>
               /\ cpc[i] = "done"
               /\ ReturnedError(i)
               /\ upstream[i] = <<>>
               /\ results[i] = <<>>

C27_Witness ==
    \E i, j \in Calls :
        /\ SseCall(i) /\ SseCall(j)
        /\ inv[i].name = "onepassword_get_secret"
        /\ inv[j].name = "onepassword_list_vaults"
        /\ outcome[i] = Return([error |-> NoneTypeError("call_tool")])
        /\ ReturnedError(j)

\* C28: for any interleaving of concurrent get_secret, list_vaults and
\* list_items calls on a client that is not yet connected, the store's
\* authenticate operation is invoked at most once.
C28_AuthenticateOnce == authenticates <= 1

\* The text of the error a client without a token fails with.
NotSetText == "OP_SERVICE_ACCOUNT_TOKEN environment variable is not set"

\* C29: when the service-account token is not set, connect fails with
\* ValueError without contacting the store and leaves self.client None, so
\* every later get_secret, list_vaults or list_items call fails the same way
\* and none reaches an operation on the absent client.
C29_NoTokenNoClient ==
    op_token = None =>
        /\ authenticates = 0
        /\ client = None
        /\ \A t \in Tasks :
               tpc[t] # "idle" =>
                   /\ tpc[t] = "done"
                   /\ sdk[t] = <<>>
                   /\ mout[t].how = "raise"
                   /\ mout[t].value.type = "ValueError"
                   /\ mout[t].value.exception = <<NotSetText>>

C29_Witness ==
    \E t, u \in Tasks :
        /\ op_token = None
        /\ t < u
        /\ Runs(t, "list_vaults") /\ Runs(u, "get_secret")
        /\ tpc[t] = "done" /\ tpc[u] = "done"
        /\ mout[t] = mout[u]
        /\ mout[u].value.type = "ValueError"


(***************************************************************************)
(* Properties of main of the secret-store server                           *)
(***************************************************************************)
\* main's call of op_client.connect() returned / raised.
ConnectSucceeded == connected # NoOutcome /\ connected.how = "return"

ConnectFailed == connected # NoOutcome /\ connected.how = "raise"

\* C30: the server accepts requests only after op_client.connect() has
\* completed successfully; if connect fails, the server is never created or
\* started, no request is served and main ends.
C30_ServesAfterConnect ==
    /\ (started \/ srvpc = "serving" \/ \E t \in Tasks : tpc[t] # "idle") =>
           ConnectSucceeded /\ Truthy(client)
    /\ ConnectFailed =>
           /\ server = None
           /\ ~started
           /\ srvpc = "ended"
           /\ \A t \in Tasks : tpc[t] = "idle"

C30_Witness ==
    /\ srvpc = "serving"
    /\ ConnectSucceeded
    /\ \E t \in Tasks : tpc[t] = "done" /\ mout[t].how = "return"


(***************************************************************************)
(* Properties of the token AuthedMiddleware.dispatch extracts              *)
(***************************************************************************)
\* s holds old somewhere (Python's `old in s`).
Contains(s, old) ==
    \E k \in 1..(Len(s) - Len(old) + 1) :
        SubSeq(s, k, k + Len(old) - 1) = old

\* C31 restricted to tokens that do not hold "Bearer " themselves: the call
\* sent to the authority carries exactly the token of the header.
C31_ExactWithoutPrefixInside ==
    \A r \in Slots :
        LET auth_header == HeadersGet(reqs[r], "authorization")
        IN  (/\ verify[r] # NoCall
             /\ ~Contains(CallerToken(auth_header), BearerPrefix)) =>
                /\ verify[r].headers.authorization = auth_header
                /\ BearerPrefix \o verify[r].json.token = auth_header

====
